---------------------------- MODULE Spec2Model ----------------------------
(***************************************************************************)
(* The Hall-of-Fame dashboard pipeline of fantasy_dashboard.py as a state  *)
(* machine: column resolution, schema check, row normalisation, per-owner  *)
(* aggregation and the leaderboard sort.                                   *)
(*                                                                         *)
(* Text is a sequence of one-character strings.  A table cell is a record  *)
(* [t, s, v]: NaN (a missing cell), Str(s) (text) or Num(v) (an integer    *)
(* that read_csv already parsed).  A column of df is identified by its     *)
(* position in df.columns; position 0 stands for Python's None.            *)
(***************************************************************************)
EXTENDS Integers, Sequences, FiniteSets, TLC

VARIABLES
    pc,        \* position of the script: idle, loaded, resolved, stopped,
               \* normalized, aggregated, ranked, done, raised
    columns,   \* original_cols = list(df.columns)
    normalized_map, \* normalized header -> position of the original column
    df,        \* the rows of df_raw, each a sequence of cells aligned with columns
    required,  \* logical field -> position of the resolved column, 0 = None
    missing,   \* the list of logical fields whose column is None
    shown,     \* what the script has rendered so far (st.error, st.write, ...)
    work,      \* the working dataframe
    agg,       \* the per-owner aggregate / leaderboard
    awards,    \* the six league superlatives, each pending, named or the fallback
    \* sleeper_cpc_2022_2025.py, build_transactions_count_by_roster:
    tx_pc,        \* idle, loop, returned
    api_txs,      \* week -> what GET /league/<id>/transactions/<week> returns
    week,         \* the loop variable
    empty_streak, \* consecutive weeks without transactions
    counts,       \* roster id -> transactions counted
    queried,      \* the weeks requested so far, in request order
    \* sleeper_weekly_high.py, find_week_high_scorer:
    wh_pc,        \* idle, called, returned, raised
    matchups,     \* what GET /league/<id>/matchups/<week> returns
    wh_row,       \* the returned row, or None
    \* sleeper_cpc_2022_2025.py, get_league_chain:
    lc_pc,            \* idle, loop, returned
    league_api,       \* league id -> what GET /league/<id> returns
    league_id,        \* the league to fetch next, <<>> for None or empty
    season_to_league, \* season -> league id recorded
    \* sleeper_cpc_2022_2025.py, build_playoff_win_loss_maps and the champion
    \* column of pull_season_rows:
    po_pc,            \* idle, winners, losers, rosters, returned
    winners_bracket,  \* what GET /league/<id>/winners_bracket returns
    losers_bracket,   \* what safe_get_losers_bracket returns
    match_at,         \* the position of the bracket loop
    wins,             \* roster id -> playoff wins
    losses,           \* roster id -> playoff losses
    wb_wins,          \* roster id -> wins in the winners bracket
    champion_by_roster \* roster id -> "Y" or "N", the rows' champion column

\* the state of fantasy_dashboard.py
dashboard_vars ==
    <<pc, columns, normalized_map, df, required, missing, shown, work, agg, awards>>

\* the state of build_transactions_count_by_roster
tx_vars == <<tx_pc, api_txs, week, empty_streak, counts, queried>>

\* the state of find_week_high_scorer
wh_vars == <<wh_pc, matchups, wh_row>>

\* the state of get_league_chain
chain_vars == <<lc_pc, league_api, league_id, season_to_league>>

\* the state of build_playoff_win_loss_maps and of the champion column
playoff_vars ==
    <<po_pc, winners_bracket, losers_bracket, match_at, wins, losses, wb_wins,
      champion_by_roster>>

vars == <<dashboard_vars, tx_vars, wh_vars, chain_vars, playoff_vars>>

---------------------------------------------------------------------------
(* Bounds of the model *)

MaxRows == 3
MaxCellRows == 2

---------------------------------------------------------------------------
(* Characters and text *)

\* U+FEFF, the byte order mark, as one character
BOM == "BOM"

Whitespace == {" ", "\t"}

UpperChars ==
    <<"A","B","C","D","E","F","G","H","I","J","K","L","M",
      "N","O","P","Q","R","S","T","U","V","W","X","Y","Z">>

LowerChars ==
    <<"a","b","c","d","e","f","g","h","i","j","k","l","m",
      "n","o","p","q","r","s","t","u","v","w","x","y","z">>

DigitChars == <<"0","1","2","3","4","5","6","7","8","9">>

\* the characters of the model in code point order
CharOrder ==
    <<"\t", " ", "(", ")", ",", "-", ".">> \o DigitChars \o UpperChars \o LowerChars \o <<BOM>>

Range(seq) == {seq[i] : i \in 1..Len(seq)}

IndexIn(seq, c) == CHOOSE i \in 1..Len(seq) : seq[i] = c

InSeq(seq, c) == \E i \in 1..Len(seq) : seq[i] = c

Ord(c) == IndexIn(CharOrder, c)

\* the lower-case and the upper-case form of each character
LowerOf ==
    [c \in Range(CharOrder) |->
        IF InSeq(UpperChars, c) THEN LowerChars[IndexIn(UpperChars, c)] ELSE c]

UpperOf ==
    [c \in Range(CharOrder) |->
        IF InSeq(LowerChars, c) THEN UpperChars[IndexIn(LowerChars, c)] ELSE c]

lower_char(c) == LowerOf[c]

upper_char(c) == UpperOf[c]

\* str.lower()
lower(s) == [i \in 1..Len(s) |-> lower_char(s[i])]

\* str.upper()
upper(s) == [i \in 1..Len(s) |-> upper_char(s[i])]

\* str.strip(): drops the leading and the trailing run of whitespace characters
strip(s) ==
    LET keep == {i \in 1..Len(s) : s[i] \notin Whitespace}
    IN  IF keep = {} THEN <<>>
        ELSE LET lo == CHOOSE i \in keep : \A j \in keep : i <= j
                 hi == CHOOSE i \in keep : \A j \in keep : i >= j
             IN  SubSeq(s, lo, hi)

\* str.replace(BOM, "")
replace_bom(s) == SelectSeq(s, LAMBDA c : c # BOM)

\* lexicographic order of Python strings (by code point)
RECURSIVE StrLess(_, _)
StrLess(a, b) ==
    IF b = <<>> THEN FALSE
    ELSE IF a = <<>> THEN TRUE
    ELSE IF a[1] # b[1] THEN Ord(a[1]) < Ord(b[1])
    ELSE StrLess(Tail(a), Tail(b))

---------------------------------------------------------------------------
(* Column resolver *)

norm(s) == replace_bom(lower(strip(s)))

\* {norm(c): c for c in df.columns}: a later column replaces an earlier one that
\* has the same norm
build_normalized_map(cols) ==
    LET keys == [j \in 1..Len(cols) |-> norm(cols[j])]
    IN  [n \in Range(keys) |->
            CHOOSE j \in 1..Len(cols) :
                keys[j] = n /\ \A k \in 1..Len(cols) : keys[k] = n => k <= j]

\* the loop of pick_col from candidate i on
RECURSIVE pick_from(_, _)
pick_from(candidates, i) ==
    IF i > Len(candidates) THEN 0
    ELSE IF norm(candidates[i]) \in DOMAIN normalized_map
         THEN normalized_map[norm(candidates[i])]
         ELSE pick_from(candidates, i + 1)

pick_col(candidates) == pick_from(candidates, 1)

owner_candidates ==
    << <<"O","w","n","e","r","(","s",")">>,
       <<"O","w","n","e","r","s">>,
       <<"O","w","n","e","r">>,
       <<"U","s","e","r","n","a","m","e">>,
       <<"T","e","a","m"," ","O","w","n","e","r">> >>

season_candidates ==
    << <<"S","e","a","s","o","n">>,
       <<"F","F"," ","Y","e","a","r">>,
       <<"Y","e","a","r">> >>

champ_candidates ==
    << <<"F","a","n","t","a","s","y"," ","C","h","a","m","p">>,
       <<"C","h","a","m","p","i","o","n">>,
       <<"C","h","a","m","p">>,
       <<"I","s"," ","C","h","a","m","p">> >>

wins_candidates ==
    << <<"W","i","n","s">>,
       <<"W">>,
       <<"W","i","n">>,
       <<"T","o","t","a","l"," ","W","i","n","s">> >>

losses_candidates ==
    << <<"L","o","s","s","e","s">>,
       <<"L">>,
       <<"L","o","s","s">>,
       <<"T","o","t","a","l"," ","L","o","s","s","e","s">> >>

pf_candidates ==
    << <<"P","F">>,
       <<"P","o","i","n","t","s"," ","F","o","r">>,
       <<"P","o","i","n","t","s","F","o","r">>,
       <<"P","t","s"," ","F","o","r">>,
       <<"T","o","t","a","l"," ","P","F">> >>

pa_candidates ==
    << <<"P","A">>,
       <<"P","o","i","n","t","s"," ","A","g","a","i","n","s","t">>,
       <<"P","o","i","n","t","s","A","g","a","i","n","s","t">>,
       <<"P","t","s"," ","A","g","a","i","n","s","t">>,
       <<"T","o","t","a","l"," ","P","A">> >>

tx_candidates ==
    << <<"T","r","a","n","s","a","c","t","i","o","n","s">>,
       <<"T","o","t","a","l"," ","T","r","a","n","s","a","c","t","i","o","n","s">>,
       <<"M","o","v","e","s">>,
       <<"T","o","t","a","l"," ","M","o","v","e","s">> >>

\* the keys of the dict `required`, in insertion order
RequiredKeys ==
    <<"Owner(s)", "Season", "Fantasy Champ", "Wins", "Losses", "PF", "PA", "Transactions">>

Candidates(k) ==
    CASE k = "Owner(s)"      -> owner_candidates
      [] k = "Season"        -> season_candidates
      [] k = "Fantasy Champ" -> champ_candidates
      [] k = "Wins"          -> wins_candidates
      [] k = "Losses"        -> losses_candidates
      [] k = "PF"            -> pf_candidates
      [] k = "PA"            -> pa_candidates
      [] k = "Transactions"  -> tx_candidates

\* required = {"Owner(s)": owner_col, ...}
required_map == [k \in Range(RequiredKeys) |-> pick_col(Candidates(k))]

\* [k for k, v in required.items() if v is None]
missing_list(req) == SelectSeq(RequiredKeys, LAMBDA k : req[k] = 0)

---------------------------------------------------------------------------
(* Cells and their conversions *)

NaN == [t |-> "nan", s |-> <<>>, v |-> 0]

Str(s) == [t |-> "str", s |-> s, v |-> 0]

Num(v) == [t |-> "num", s |-> <<>>, v |-> v]

isna(c) == c.t = "nan"

IsDigit(c) == InSeq(DigitChars, c)

DigitVal(c) == IndexIn(DigitChars, c) - 1

\* the decimal digits of a natural number
RECURSIVE NatStr(_)
NatStr(n) ==
    IF n < 10 THEN <<DigitChars[n + 1]>>
    ELSE NatStr(n \div 10) \o <<DigitChars[(n % 10) + 1]>>

\* the value of a sequence of digits
RECURSIVE DigitsVal(_)
DigitsVal(s) ==
    IF s = <<>> THEN 0
    ELSE 10 * DigitsVal(SubSeq(s, 1, Len(s) - 1)) + DigitVal(s[Len(s)])

\* Series.astype(str) of one cell (integer cells; NaN prints as "nan")
astype_str(c) ==
    CASE c.t = "nan" -> <<"n","a","n">>
      [] c.t = "str" -> c.s
      [] c.t = "num" -> IF c.v < 0 THEN <<"-">> \o NatStr(0 - c.v) ELSE NatStr(c.v)

\* Series.fillna(value) of one cell
fillna(c, value) == IF isna(c) THEN value ELSE c

\* pd.to_numeric(errors="coerce") of one cell: a number stays, text that is an
\* optionally signed run of digits is parsed, everything else becomes NaN
to_numeric(c) ==
    CASE c.t = "nan" -> NaN
      [] c.t = "num" -> c
      [] c.t = "str" ->
            LET body == IF c.s # <<>> /\ c.s[1] = "-" THEN Tail(c.s) ELSE c.s
                neg  == c.s # <<>> /\ c.s[1] = "-"
            IN  IF body # <<>> /\ \A i \in 1..Len(body) : IsDigit(body[i])
                THEN Num(IF neg THEN 0 - DigitsVal(body) ELSE DigitsVal(body))
                ELSE NaN

\* pd.to_numeric(work[col], errors="coerce").fillna(0)
numeric_cleanup(c) == fillna(to_numeric(c), Num(0)).v

\* df[owner_col].astype(str).str.strip()
owner_of(c) == strip(astype_str(c))

champ_of_no_strip(c) == upper(astype_str(fillna(c, Str(<<>>))))

\* df[champ_col].fillna("").astype(str).str.strip().str.upper()
champ_of(c) == upper(strip(astype_str(fillna(c, Str(<<>>)))))

\* Series.str.extract(r"(\d{4})")[0] of one string: the first four consecutive
\* digits, NaN when there are none
extract_year(s) ==
    LET at == {i \in 1..(Len(s) - 3) : \A j \in i..(i + 3) : IsDigit(s[j])}
    IN  IF at = {} THEN NaN
        ELSE Str(SubSeq(s, (CHOOSE i \in at : \A k \in at : i <= k),
                           (CHOOSE i \in at : \A k \in at : i <= k) + 3))

\* work["Season_Year"]: extract on Season.astype(str), then pd.to_numeric
season_year(c) == to_numeric(extract_year(astype_str(c)))

\* one row of `work`
work_row(r, req) ==
    [ Owner        |-> owner_of(r[req["Owner(s)"]]),
      Season       |-> r[req["Season"]],
      FantasyChamp |-> champ_of(r[req["Fantasy Champ"]]),
      Wins         |-> numeric_cleanup(r[req["Wins"]]),
      Losses       |-> numeric_cleanup(r[req["Losses"]]),
      PF           |-> numeric_cleanup(r[req["PF"]]),
      PA           |-> numeric_cleanup(r[req["PA"]]),
      Transactions |-> numeric_cleanup(r[req["Transactions"]]),
      IsChamp      |-> champ_of(r[req["Fantasy Champ"]]) = <<"Y">>,
      Season_Year  |-> season_year(r[req["Season"]]) ]

build_work_dropna(rows, req) ==
    LET all == [i \in 1..Len(rows) |-> work_row(rows[i], req)]
    IN  SelectSeq(all, LAMBDA w : w.Owner # <<"n","a","n">>)

\* work = pd.DataFrame({...}) and the columns added to it
build_work(rows, req) == [i \in 1..Len(rows) |-> work_row(rows[i], req)]

\* work_modern = work[work["Season_Year"].fillna(0) >= 2014]
is_modern(w) == fillna(w.Season_Year, Num(0)).v >= 2014

work_modern(wk) == SelectSeq(wk, is_modern)

---------------------------------------------------------------------------
(* Aggregator *)

\* the distinct owner strings of a table
owner_set(wk) == {wk[i].Owner : i \in 1..Len(wk)}

\* the group keys of groupby("Owner(s)") in sorted order
RECURSIVE sorted_keys(_)
sorted_keys(S) ==
    IF S = {} THEN <<>>
    ELSE LET m == CHOOSE x \in S : \A y \in S \ {x} : StrLess(x, y)
         IN  <<m>> \o sorted_keys(S \ {m})

\* the rows of one group
group(wk, o) == SelectSeq(wk, LAMBDA w : w.Owner = o)

RECURSIVE sum_of(_, _)
sum_of(rows, col) ==
    IF rows = <<>> THEN 0 ELSE rows[1][col] + sum_of(Tail(rows), col)

\* the integer years champ_points extracts from the champion rows of a group
champ_seasons_of(subdf) ==
    LET champs  == SelectSeq(subdf, LAMBDA w : w.IsChamp)
        labels  == SelectSeq(champs, LAMBDA w : ~isna(w.Season))
        found   == [i \in 1..Len(labels) |-> extract_year(astype_str(labels[i].Season))]
        kept    == SelectSeq(found, LAMBDA c : ~isna(c))
    IN  [i \in 1..Len(kept) |-> DigitsVal(kept[i].s)]

champ_points_boundary_off(subdf) ==
    LET seasons == champ_seasons_of(subdf)
        early   == Len(SelectSeq(seasons, LAMBDA y : y <= 2014))
        modern  == Len(SelectSeq(seasons, LAMBDA y : y > 2014))
    IN  early * 25 + modern * 50

champ_points(subdf) ==
    LET seasons == champ_seasons_of(subdf)
        early   == Len(SelectSeq(seasons, LAMBDA y : y < 2014))
        modern  == Len(SelectSeq(seasons, LAMBDA y : y >= 2014))
    IN  early * 25 + modern * 50

\* sorted(years): a list of strings in code-point order
RECURSIVE sorted_strs(_)
sorted_strs(strs) ==
    IF strs = <<>> THEN <<>>
    ELSE LET rest == sorted_strs(Tail(strs))
             x    == strs[1]
             k    == Cardinality({i \in 1..Len(rest) : StrLess(rest[i], x)})
         IN  SubSeq(rest, 1, k) \o <<x>> \o SubSeq(rest, k + 1, Len(rest))

\* ", ".join(strs)
RECURSIVE join(_)
join(strs) ==
    IF strs = <<>> THEN <<>>
    ELSE IF Len(strs) = 1 THEN strs[1]
    ELSE strs[1] \o <<",", " ">> \o join(Tail(strs))

\* lines 113-120: the season labels of the champion rows, sorted and joined
champ_years(subdf) ==
    LET champs == SelectSeq(subdf, LAMBDA w : w.IsChamp)
        labels == SelectSeq(champs, LAMBDA w : ~isna(w.Season))
        years  == [i \in 1..Len(labels) |-> astype_str(labels[i].Season)]
    IN  join(sorted_strs(years))

\* one row of champs_agg
champs_row(wk, o) ==
    [ Owner              |-> o,
      Championships      |-> Len(SelectSeq(group(wk, o), LAMBDA w : w.IsChamp)),
      ChampionshipPoints |-> champ_points(group(wk, o)),
      ChampionshipYears  |-> champ_years(group(wk, o)) ]

stats_cell_all_seasons(wk, o, col) == Num(sum_of(group(wk, o), col))

\* one cell of stats_agg after the left merge: NaN for an owner without modern rows
stats_cell(wk, o, col) ==
    IF group(work_modern(wk), o) = <<>> THEN NaN
    ELSE Num(sum_of(group(work_modern(wk), o), col))

\* seasons_played after the left merge
seasons_played_cell(wk, o) ==
    LET g == group(work_modern(wk), o)
    IN  IF g = <<>> THEN NaN
        ELSE Num(Cardinality({g[i].Season_Year.v : i \in 1..Len(g)}))

\* a float that is finite (m thousandths) or an infinity
Fin(m) == [k |-> "fin", m |-> m]

PosInf == [k |-> "inf", m |-> 0]

NegInf == [k |-> "-inf", m |-> 0]

FloatGt(a, b) ==
    CASE a.k = "inf"  -> b.k # "inf"
      [] a.k = "-inf" -> FALSE
      [] a.k = "fin"  -> b.k = "-inf" \/ (b.k = "fin" /\ a.m > b.m)

\* n / d rounded to the nearest integer, halves to the even one (d # 0)
round_div(n, d) ==
    LET nn == IF d < 0 THEN 0 - n ELSE n
        dd == IF d < 0 THEN 0 - d ELSE d
        q  == (2 * nn + dd) \div (2 * dd)
    IN  IF (2 * nn + dd) % (2 * dd) = 0 /\ q % 2 # 0 THEN q - 1 ELSE q

\* (agg["Total_Wins"] / agg["Games"]).fillna(0).round(3), in thousandths:
\* x / 0 is an infinity, 0 / 0 is NaN and becomes 0
win_pct(total_wins, games) ==
    IF games = 0
    THEN (IF total_wins > 0 THEN PosInf ELSE IF total_wins < 0 THEN NegInf ELSE Fin(0))
    ELSE Fin(round_div(1000 * total_wins, games))

\* Series.clip(lower=lo)
clip_lower(x, lo) == IF x < lo THEN lo ELSE x

\* (Total / Seasons_Played.clip(lower=1)).round(1), in tenths, taken before the
\* totals are filled: NaN for an owner without modern rows
avg_per_season(total, seasons_played) ==
    IF isna(total) THEN NaN
    ELSE Num(round_div(10 * total.v, clip_lower(seasons_played, 1)))

pf_per_transaction_no_clip(total_pf, total_tx) ==
    IF total_tx = 0
    THEN (IF total_pf > 0 THEN PosInf ELSE IF total_pf < 0 THEN NegInf
          ELSE [k |-> "nan", m |-> 0])
    ELSE Fin(round_div(100 * total_pf, total_tx))

\* line 187: (Total_PF / Total_Transactions.clip(lower=1)).round(2), in hundredths
pf_per_transaction(total_pf, total_tx) ==
    Fin(round_div(100 * total_pf, clip_lower(total_tx, 1)))

\* lines 189-193: (Championship Points + Win % * 100 + Total_PF / 500).round(2),
\* in hundredths; an infinite Win % stays infinite
dynasty_index(cp, wp, total_pf) ==
    IF wp.k # "fin" THEN wp
    ELSE Fin(round_div(500 * cp + 50 * wp.m + total_pf, 5))

\* lines 195-199: (Championship Points + Total_Wins * 2 + Total_PF / 100).round(1),
\* in tenths
goat_score(cp, total_wins, total_pf) ==
    round_div(100 * cp + 200 * total_wins + total_pf, 10)

\* one row of agg, lines 162-199
agg_row(wk, o) ==
    LET c  == champs_row(wk, o)
        tw == fillna(stats_cell(wk, o, "Wins"), Num(0)).v
        tl == fillna(stats_cell(wk, o, "Losses"), Num(0)).v
        pf == fillna(stats_cell(wk, o, "PF"), Num(0)).v
        pa == fillna(stats_cell(wk, o, "PA"), Num(0)).v
        tx == fillna(stats_cell(wk, o, "Transactions"), Num(0)).v
        sp == fillna(seasons_played_cell(wk, o), Num(0)).v
        wp == win_pct(tw, tw + tl)
    IN  [ Owner              |-> o,
          Championships      |-> c.Championships,
          ChampionshipPoints |-> c.ChampionshipPoints,
          ChampionshipYears  |-> c.ChampionshipYears,
          Seasons_Played     |-> sp,
          AvgPFperSeason     |-> avg_per_season(stats_cell(wk, o, "PF"), sp),
          AvgPAperSeason     |-> avg_per_season(stats_cell(wk, o, "PA"), sp),
          Total_Wins         |-> tw,
          Total_Losses       |-> tl,
          Total_PF           |-> pf,
          Total_PA           |-> pa,
          Total_Transactions |-> tx,
          Games              |-> tw + tl,
          WinPct             |-> wp,
          PointDiff          |-> pf - pa,
          PFperTransaction   |-> pf_per_transaction(pf, tx),
          DynastyIndex       |-> dynasty_index(c.ChampionshipPoints, wp, pf),
          GOATScore          |-> goat_score(c.ChampionshipPoints, tw, pf) ]

aggregate_inner_merge(wk) ==
    LET keys == sorted_keys(owner_set(work_modern(wk)))
    IN  [i \in 1..Len(keys) |-> agg_row(wk, keys[i])]

\* agg = champs_agg.merge(stats_agg, how="left") with its derived columns,
\* one row per group key, in the order of champs_agg
aggregate(wk) ==
    LET keys == sorted_keys(owner_set(wk))
    IN  [i \in 1..Len(keys) |-> agg_row(wk, keys[i])]

---------------------------------------------------------------------------
(* Leaderboard *)

\* x sorts strictly before y under by=[Championships, Win %, Total_Wins], all descending
Outranks(x, y) ==
    \/ x.Championships > y.Championships
    \/ /\ x.Championships = y.Championships
       /\ FloatGt(x.WinPct, y.WinPct)
    \/ /\ x.Championships = y.Championships
       /\ x.WinPct = y.WinPct
       /\ x.Total_Wins > y.Total_Wins

\* x placed before the first row it outranks, after every other row
insert_row(sorted, x) ==
    LET before == {i \in 1..Len(sorted) : Outranks(x, sorted[i])}
    IN  IF before = {} THEN Append(sorted, x)
        ELSE LET p == CHOOSE i \in before : \A k \in before : i <= k
             IN  SubSeq(sorted, 1, p - 1) \o <<x>> \o SubSeq(sorted, p, Len(sorted))

RECURSIVE sort_into(_, _)
sort_into(sorted, rest) ==
    IF rest = <<>> THEN sorted
    ELSE sort_into(insert_row(sorted, rest[1]), Tail(rest))

sort_values_winpct_first(a) ==
    LET first(x, y) ==
            \/ FloatGt(x.WinPct, y.WinPct)
            \/ x.WinPct = y.WinPct /\ x.Championships > y.Championships
        RECURSIVE go(_, _)
        go(sorted, rest) ==
            IF rest = <<>> THEN sorted
            ELSE LET x == rest[1]
                     before == {i \in 1..Len(sorted) : first(x, sorted[i])}
                 IN  go(IF before = {} THEN Append(sorted, x)
                        ELSE LET p == CHOOSE i \in before : \A k \in before : i <= k
                             IN  SubSeq(sorted, 1, p - 1) \o <<x>>
                                   \o SubSeq(sorted, p, Len(sorted)),
                        Tail(rest))
    IN  go(<<>>, a)

\* agg.sort_values(by=[...], ascending=[False, False, False]): a stable sort
sort_values(a) == sort_into(<<>>, a)

---------------------------------------------------------------------------
(* League superlatives, lines 275-363 *)

QUAL_SEASONS == 7

\* line 279: agg[agg["Seasons_Played"] >= QUAL_SEASONS]
qualified(a) == SelectSeq(a, LAMBDA r : r.Seasons_Played >= QUAL_SEASONS)

\* line 280
qualified_names(a) == {a[i].Owner : i \in {k \in 1..Len(a) : a[k].Seasons_Played >= QUAL_SEASONS}}

\* what one st.metric of the superlatives shows: a named record or the fallback
\* label; `season` and `value` carry the season label and the number shown
Named(owner, season, value) ==
    [kind |-> "named", owner |-> owner, season |-> season, value |-> value]

Fallback == [kind |-> "fallback", owner |-> <<>>, season |-> NaN, value |-> 0]

Pending == [kind |-> "pending", owner |-> <<>>, season |-> NaN, value |-> 0]

\* the positions of a table that a sort on one column may put first: a
\* single-column sort_values is not stable, any row with the best key can lead
first_by(rows, col, descending) ==
    {i \in 1..Len(rows) :
        \A k \in 1..Len(rows) :
            IF descending THEN rows[i][col] >= rows[k][col]
            ELSE rows[i][col] <= rows[k][col]}

\* lines 291-295: the qualified owner first under
\* sort_values(["GOAT Score", "Championships"], ascending=[False, False]), a
\* stable sort
goat_of(a) ==
    LET beats(x, y) ==
            \/ x.GOATScore > y.GOATScore
            \/ x.GOATScore = y.GOATScore /\ x.Championships > y.Championships
        pick(q) ==
            LET best == {i \in 1..Len(q) : \A k \in 1..Len(q) : ~beats(q[k], q[i])}
                i    == CHOOSE j \in best : \A k \in best : j <= k
            IN  Named(q[i].Owner, NaN, q[i].Championships)
    IN  {IF q = <<>> THEN Fallback ELSE pick(q) : q \in {qualified(a)}}

\* lines 297-299: agg has a row whenever these lines are reached
most_tx_of(a) ==
    {Named(a[i].Owner, NaN, a[i].Total_Transactions) :
        i \in first_by(a, "Total_Transactions", TRUE)}

\* the rows a single-column sort may put first, as st.metric shows them
leaders(rows, col, descending, with_season) ==
    IF rows = <<>> THEN {Fallback}
    ELSE {Named(rows[i].Owner, IF with_season THEN rows[i].Season ELSE NaN, rows[i][col]) :
             i \in first_by(rows, col, descending)}

heartbreak_of_any_owner(a) == leaders(a, "Total_Wins", TRUE, FALSE)

\* lines 301-307
heartbreak_of(a) ==
    UNION {leaders(no_ring, "Total_Wins", TRUE, FALSE) :
              no_ring \in {SelectSeq(a, LAMBDA r : r.Championships = 0)}}

luckiest_of_highest_pf(wm) ==
    UNION {leaders(champ_seasons, "PF", TRUE, TRUE) :
              champ_seasons \in {SelectSeq(wm, LAMBDA w : w.IsChamp /\ w.PF > 0)}}

\* lines 311-318, over work_modern: its champion rows with a positive PF
luckiest_of(wm) ==
    UNION {leaders(champ_seasons, "PF", FALSE, TRUE) :
              champ_seasons \in {SelectSeq(wm, LAMBDA w : w.IsChamp /\ w.PF > 0)}}

RECURSIVE gcd(_, _)
gcd(a, b) == IF b = 0 THEN a ELSE gcd(b, a % b)

\* a rational number num / den
Frac(num, den) == [num |-> num, den |-> den]

\* lines 326-329: Wins / (Wins + Losses).replace(0, pd.NA), then fillna(0)
season_win_pct(w) ==
    IF w.Wins + w.Losses = 0 THEN Frac(0, 1) ELSE Frac(w.Wins, w.Wins + w.Losses)

\* the least common denominator of the season win rates of a group
RECURSIVE common_den(_)
common_den(g) ==
    IF g = <<>> THEN 1
    ELSE LET d == season_win_pct(g[1]).den
             a == IF d < 0 THEN 0 - d ELSE d
             r == common_den(Tail(g))
         IN  (a * r) \div gcd(a, r)

RECURSIVE sum_scaled(_, _, _)
sum_scaled(g, L, power) ==
    IF g = <<>> THEN 0
    ELSE LET f == season_win_pct(g[1])
             x == f.num * (L \div f.den)
         IN  (IF power = 2 THEN x * x ELSE x) + sum_scaled(Tail(g), L, power)

\* the sample variance (ddof = 1) of the season win rates of a group, the square
\* of the "std" column: (n * sum(x^2) - sum(x)^2) / (n * (n - 1))
variance(g) ==
    LET n == Len(g)
        L == common_den(g)
        s == sum_scaled(g, L, 1)
    IN  Frac(n * sum_scaled(g, L, 2) - s * s, L * L * n * (n - 1))

\* a < b for two variances with positive denominators
FracLess(a, b) == a.num * b.den < b.num * a.den

\* lines 322-336, over work_modern and the qualified names: the season rows of
\* the qualified owners and, per owner, the count and the variance of the season
\* win rate, kept when count >= QUAL_SEASONS
stds_of(wm, names) ==
    LET rows_of(season_team) ==
            LET keys == sorted_keys(owner_set(season_team))
            IN  [i \in 1..Len(keys) |->
                   [ Owner |-> keys[i],
                     count |-> Len(group(season_team, keys[i])),
                     var   |-> variance(group(season_team, keys[i])) ]]
        season_team ==
            SelectSeq(wm, LAMBDA w : w.Owner \in names /\ ~isna(w.Season_Year))
    IN  IF names = {} THEN <<>>
        ELSE SelectSeq(rows_of(season_team), LAMBDA r : r.count >= QUAL_SEASONS)

mr_consistency_of_widest(wm, names) ==
    UNION { IF stds = <<>> THEN {Fallback}
            ELSE {Named(stds[j].Owner, NaN, 0) :
                     j \in {i \in 1..Len(stds) :
                               \A k \in 1..Len(stds) : ~FracLess(stds[i].var, stds[k].var)}}
            : stds \in {stds_of(wm, names)} }

\* lines 338-353: the owner first under sort_values("std", ascending=True);
\* the spread shown next to the name is left out
mr_consistency_of(wm, names) ==
    UNION { IF stds = <<>> THEN {Fallback}
            ELSE {Named(stds[j].Owner, NaN, 0) :
                     j \in {i \in 1..Len(stds) :
                               \A k \in 1..Len(stds) : ~FracLess(stds[k].var, stds[i].var)}}
            : stds \in {stds_of(wm, names)} }

\* lines 355-363, over work_modern
best_season_of(wm) == leaders(wm, "PF", TRUE, TRUE)

AwardNames ==
    {"goat", "most_tx", "heartbreak", "luckiest", "mr_consistency", "best_season"}

---------------------------------------------------------------------------
(* The input: the header row and the data rows that read_csv returns *)

\* per logical field, the headers a source file may carry for it (possibly none,
\* possibly two)
OwnerHeaders ==
    { <<>>,
      <<<<"O","w","n","e","r","(","s",")">>>>,
      <<<<" ","o","w","n","e","r"," ">>>>,
      <<<<BOM,"O","w","n","e","r","(","s",")">>>>,
      <<<<BOM," ","O","w","n","e","r","(","s",")">>>>,
      <<<<"U","s","e","r","n","a","m","e">>, <<"O","w","n","e","r","s">>>> }

SeasonHeaders ==
    { <<>>,
      <<<<"S","e","a","s","o","n">>>>,
      <<<<"Y","E","A","R">>>> }

ChampHeaders ==
    { <<>>,
      <<<<"F","a","n","t","a","s","y"," ","C","h","a","m","p">>>> }

WinsHeaders ==
    { <<>>,
      <<<<"W","i","n","s">>>>,
      <<<<"W","i","n">>, <<"W">>>>,
      <<<<"W","i","n","s">>, <<"w","i","n","s","\t">>>> }

LossesHeaders ==
    { <<>>,
      <<<<"L","o","s","s","e","s">>>> }

PFHeaders ==
    { <<>>,
      <<<<"P","F">>>> }

PAHeaders ==
    { <<>>,
      <<<<"P","A">>>> }

TxHeaders ==
    { <<>>,
      <<<<"T","r","a","n","s","a","c","t","i","o","n","s">>>> }

\* header rows: the headers of the eight fields one after the other
HeaderRows ==
    { o \o s \o c \o w \o l \o pf \o pa \o tx :
        o \in OwnerHeaders, s \in SeasonHeaders, c \in ChampHeaders,
        w \in WinsHeaders, l \in LossesHeaders, pf \in PFHeaders,
        pa \in PAHeaders, tx \in TxHeaders }

CanonicalHeaders ==
    << <<"O","w","n","e","r","(","s",")">>,
       <<"S","e","a","s","o","n">>,
       <<"F","a","n","t","a","s","y"," ","C","h","a","m","p">>,
       <<"W","i","n","s">>,
       <<"L","o","s","s","e","s">>,
       <<"P","F">>,
       <<"P","A">>,
       <<"T","r","a","n","s","a","c","t","i","o","n","s">> >>

HeadersWithoutWins ==
    << <<"O","w","n","e","r","(","s",")">>,
       <<"S","e","a","s","o","n">>,
       <<"F","a","n","t","a","s","y"," ","C","h","a","m","p">>,
       <<"L","o","s","s","e","s">>,
       <<"P","F">>,
       <<"P","A">>,
       <<"T","r","a","n","s","a","c","t","i","o","n","s">> >>

\* sequences over S of length at most n
SeqsUpTo(S, n) == UNION {[1..k -> S] : k \in 0..n}

\* a row that carries the same cell in every column
uniform_row(cols, c) == [j \in 1..Len(cols) |-> c]

\* rows under CanonicalHeaders: owner, season, champion flag, wins, losses, PF, PA,
\* transactions
raw_row(o, s, c, w, l, pf, pa, tx) == <<o, s, c, w, l, pf, pa, tx>>

OwnerA == Str(<<"A">>)

OwnerB == Str(<<"B">>)

BaseRow == raw_row(OwnerA, Str(<<"2","0","1","5">>), Str(<<"N">>), Num(1), Num(1), Num(5), Num(4), Num(2))

\* the base row with one column replaced
with_cell(j, c) == [BaseRow EXCEPT ![j] = c]

OwnerCells == {OwnerB, Str(<<" ","A"," ">>), Str(<<" ","\t">>), NaN}

SeasonCells == {Str(<<"2","0","1","2">>), Str(<<"F","F"," ","2","0","1","4">>), Str(<<"x">>), Str(<<"2","0","1","5","3">>), NaN}

ChampCells == {Str(<<"Y">>), Str(<<"y">>), Str(<<" ","y","\t">>), Str(<<"Y","Y">>), Str(<<"Y"," ","N">>), NaN, Num(1)}

NumericCells == {Num(-1), Num(0), NaN, Str(<<"x">>), Str(<<"-","2">>), Str(<<"1","2">>)}

OtherNumericCells == {Num(-3), NaN}

\* rows that vary one cell at a time
CellRows ==
    {BaseRow}
      \cup {with_cell(1, c) : c \in OwnerCells}
      \cup {with_cell(2, c) : c \in SeasonCells}
      \cup {with_cell(3, c) : c \in ChampCells}
      \cup {with_cell(4, c) : c \in NumericCells}
      \cup {with_cell(j, c) : j \in 5..8, c \in OtherNumericCells}

\* season rows of two owners, in and before the modern era, champion or not
SeasonRows ==
    { raw_row(o, Str(<<"2","0","1","5">>), c, Num(1), Num(1), Num(5), Num(4), Num(2)) :
        o \in {OwnerA, OwnerB},
        c \in {Str(<<"Y">>), Str(<<"N">>)} }
      \cup
    { raw_row(o, Str(<<"2","0","1","2">>), Str(<<"Y">>), Num(1), Num(1), Num(5), Num(4), Num(2)) :
        o \in {OwnerA, OwnerB} }
      \cup
    { raw_row(o, Str(<<"2","0","1","5">>), c, Num(2), Num(1), Num(3), Num(4), Num(2)) :
        o \in {OwnerA, OwnerB},
        c \in {Str(<<"Y">>), Str(<<"N">>)} }
      \cup
    { raw_row(OwnerA, Str(<<"x">>), Str(<<"Y">>), Num(1), Num(1), Num(5), Num(4), Num(2)),
      raw_row(OwnerA, NaN, Str(<<"Y">>), Num(1), Num(1), Num(5), Num(4), Num(2)),
      raw_row(OwnerB, Str(<<"2","0","1","4">>), Str(<<"Y">>), Num(0), Num(0), Num(0), Num(0), Num(0)),
      raw_row(OwnerA, Str(<<"2","0","1","5">>), Str(<<"N">>), Num(1), Num(-1), Num(5), Num(4), Num(2)),
      raw_row(OwnerB, Str(<<"2","0","1","5">>), Str(<<"N">>), Num(-1), Num(2), Num(5), Num(4), Num(2)) }

\* the seasons an owner's career may span
MaxSeasons == 7

\* the record of season k of a career: level, swinging between 2-0 and 0-2, or
\* between 2-0 and 1-1
career_record(pattern, k) ==
    CASE pattern = "steady" -> <<1, 1>>
      [] pattern = "swing"  -> IF k % 2 = 1 THEN <<2, 0>> ELSE <<0, 2>>
      [] pattern = "mild"   -> IF k % 2 = 1 THEN <<2, 0>> ELSE <<1, 1>>

\* n season rows of one owner from 2014 on, champion in the first season or never
career(o, n, pattern, champion) ==
    [k \in 1..n |->
        raw_row(o, Str(NatStr(2013 + k)),
                IF champion /\ k = 1 THEN Str(<<"Y">>) ELSE Str(<<"N">>),
                Num(career_record(pattern, k)[1]), Num(career_record(pattern, k)[2]),
                Num(100), Num(90), Num(1))]

\* the careers of one owner: one season, or one short of QUAL_SEASONS and more
Careers(o) ==
    {career(o, n, pattern, champion) :
        n \in {1} \cup ((QUAL_SEASONS - 1)..MaxSeasons),
        pattern \in {"steady", "swing", "mild"},
        champion \in BOOLEAN}

---------------------------------------------------------------------------
(* The script *)

\* build_transactions_count_by_roster is not running
TxIdle ==
    /\ tx_pc = "idle"
    /\ api_txs = <<>>
    /\ week = 0
    /\ empty_streak = 0
    /\ counts = <<>>
    /\ queried = <<>>

\* get_league_chain is not running
ChainIdle ==
    /\ lc_pc = "idle"
    /\ league_api = <<>>
    /\ league_id = <<>>
    /\ season_to_league = <<>>

\* build_playoff_win_loss_maps is not running
PlayoffIdle ==
    /\ po_pc = "idle"
    /\ winners_bracket = <<>>
    /\ losers_bracket = <<>>
    /\ match_at = 0
    /\ wins = <<>>
    /\ losses = <<>>
    /\ wb_wins = <<>>
    /\ champion_by_roster = <<>>

\* find_week_high_scorer is not running
WeeklyHighIdle ==
    /\ wh_pc = "idle"
    /\ matchups = <<>>
    /\ wh_row = <<>>

\* the state after lines 21-32 (read_csv, normalized_map), for a header row and a table
Loaded(cols, rows) ==
    /\ pc = "loaded"
    /\ columns = cols
    /\ normalized_map = build_normalized_map(cols)
    /\ df = rows
    /\ required = [k \in Range(RequiredKeys) |-> 0]
    /\ missing = <<>>
    /\ shown = <<>>
    /\ work = <<>>
    /\ agg = <<>>
    /\ awards = [n \in AwardNames |-> Pending]
    /\ TxIdle
    /\ WeeklyHighIdle
    /\ ChainIdle
    /\ PlayoffIdle

\* any header row, over a table of at most one row
InitSchema ==
    \E cols \in HeaderRows :
        \E rows \in {<<>>, <<uniform_row(cols, Num(1))>>} : Loaded(cols, rows)

\* a header row without a wins column, so that every specification has a halting run
InitNoWins ==
    \E rows \in {<<>>, <<uniform_row(HeadersWithoutWins, Num(1))>>} :
        Loaded(HeadersWithoutWins, rows)

\* the canonical header row over tables whose rows vary one cell at a time
InitCells ==
    \/ \E rows \in SeqsUpTo(CellRows, MaxCellRows) : Loaded(CanonicalHeaders, rows)
    \/ InitNoWins

\* the canonical header row over tables of season rows
InitSeasons ==
    \/ \E rows \in SeqsUpTo(SeasonRows, MaxRows) : Loaded(CanonicalHeaders, rows)
    \/ InitNoWins

\* the canonical header row over the careers of two owners
InitCareers ==
    \/ \E a \in Careers(OwnerA), b \in Careers(OwnerB) : Loaded(CanonicalHeaders, a \o b)
    \/ InitNoWins

Init == InitSchema \/ InitCells \/ InitSeasons \/ InitCareers

\* a rendered element
Shown(kind, fields, headers) == [kind |-> kind, fields |-> fields, headers |-> headers]

\* lines 43-64: the eight pick_col calls, `required` and `missing`
ResolveColumns ==
    /\ pc = "loaded"
    /\ required' = required_map
    /\ missing' = missing_list(required_map)
    /\ pc' = "resolved"
    /\ UNCHANGED <<columns, normalized_map, df, shown, work, agg, awards, tx_vars, wh_vars, chain_vars,
                   playoff_vars>>

halts_only_when_all_missing(miss) == Len(miss) = Len(RequiredKeys)

\* line 65: if missing:
halts(miss) == miss # <<>>

schema_report_all_keys(miss, cols) ==
    << Shown("error", RequiredKeys, <<>>),
       Shown("write", <<>>, cols),
       Shown("info", <<>>, <<>>) >>

\* lines 66-68: st.error names the missing keys, st.write the columns found
schema_report(miss, cols) ==
    << Shown("error", miss, <<>>),
       Shown("write", <<>>, cols),
       Shown("info", <<>>, <<>>) >>

\* lines 65-69: if missing: report and st.stop()
SchemaHalt ==
    /\ pc = "resolved"
    /\ halts(missing)
    /\ shown' = shown \o schema_report(missing, columns)
    /\ pc' = "stopped"
    /\ UNCHANGED <<columns, normalized_map, df, required, missing, work, agg, awards, tx_vars, wh_vars, chain_vars,
                   playoff_vars>>

\* lines 74-105: the working dataframe and the data-rule note; df[None] is a
\* KeyError
BuildWork ==
    /\ pc = "resolved"
    /\ ~halts(missing)
    /\ \/ /\ \A k \in DOMAIN required : required[k] # 0
          /\ work' = build_work(df, required)
          /\ shown' = Append(shown, Shown("info", <<>>, <<>>))
          /\ pc' = "normalized"
       \/ /\ \E k \in DOMAIN required : required[k] = 0
          /\ pc' = "raised"
          /\ UNCHANGED <<work, shown>>
    /\ UNCHANGED <<columns, normalized_map, df, required, missing, agg, awards, tx_vars, wh_vars, chain_vars,
                   playoff_vars>>

\* lines 108-199: work_modern, champs_agg, stats_agg, agg and its derived columns;
\* on an empty table groupby.apply yields no "Championships" columns and the
\* script raises
Aggregate ==
    /\ pc = "normalized"
    /\ \/ /\ work = <<>>
          /\ pc' = "raised"
          /\ agg' = agg
       \/ /\ work # <<>>
          /\ agg' = aggregate(work)
          /\ pc' = "aggregated"
    /\ UNCHANGED <<columns, normalized_map, df, required, missing, shown, work, awards, tx_vars, wh_vars, chain_vars,
                   playoff_vars>>

\* lines 248-273: the sort and the leaderboard table
SortLeaderboard ==
    /\ pc = "aggregated"
    /\ agg' = sort_values(agg)
    /\ shown' = Append(shown, Shown("dataframe", <<>>, <<>>))
    /\ pc' = "ranked"
    /\ UNCHANGED <<columns, normalized_map, df, required, missing, work, awards, tx_vars, wh_vars, chain_vars,
                   playoff_vars>>

\* lines 275-363: the six superlatives; the charts of lines 364-449 only display
Superlatives ==
    /\ pc = "ranked"
    /\ \E wm \in {work_modern(work)}, names \in {qualified_names(agg)} :
         \E goat \in goat_of(agg), most_tx \in most_tx_of(agg),
            heartbreak \in heartbreak_of(agg), luckiest \in luckiest_of(wm),
            mr_consistency \in mr_consistency_of(wm, names),
            best_season \in best_season_of(wm) :
              awards' = [ goat           |-> goat,
                          most_tx        |-> most_tx,
                          heartbreak     |-> heartbreak,
                          luckiest       |-> luckiest,
                          mr_consistency |-> mr_consistency,
                          best_season    |-> best_season ]
    /\ shown' = shown \o [i \in 1..6 |-> Shown("metric", <<>>, <<>>)]
    /\ pc' = "done"
    /\ UNCHANGED <<columns, normalized_map, df, required, missing, work, agg,
                   tx_vars, wh_vars, chain_vars,
                   playoff_vars>>

Next ==
    \/ ResolveColumns
    \/ SchemaHalt
    \/ BuildWork
    \/ Aggregate
    \/ SortLeaderboard
    \/ Superlatives

Spec == Init /\ [][Next]_vars

SpecSchema == InitSchema /\ [][Next]_vars

SpecCells == InitCells /\ [][Next]_vars

SpecSeasons == InitSeasons /\ [][Next]_vars

SpecCareers == InitCareers /\ [][Next]_vars

---------------------------------------------------------------------------
(* sleeper_cpc_2022_2025.py: build_transactions_count_by_roster *)

\* fantasy_dashboard.py is not running
DashboardIdle ==
    /\ pc = "idle"
    /\ columns = <<>>
    /\ normalized_map = <<>>
    /\ df = <<>>
    /\ required = <<>>
    /\ missing = <<>>
    /\ shown = <<>>
    /\ work = <<>>
    /\ agg = <<>>
    /\ awards = <<>>

\* the weeks a league may be asked for
MaxWeeks == 6

\* the max_weeks argument
max_weeks == MaxWeeks

\* int(x) of a JSON value: the number itself, the number a string of digits
\* (signed, between whitespace) spells, TypeError for None and ValueError for
\* other text
py_int(c) ==
    CASE c.t = "num" -> [ok |-> TRUE, v |-> c.v]
      [] c.t = "nan" -> [ok |-> FALSE, v |-> 0]
      [] c.t = "str" ->
           LET t == strip(c.s)
               d == IF t # <<>> /\ t[1] = "-" THEN Tail(t) ELSE t
           IN  IF d # <<>> /\ \A i \in 1..Len(d) : IsDigit(d[i])
               THEN [ok |-> TRUE,
                     v |-> IF t[1] = "-" THEN 0 - DigitsVal(d) ELSE DigitsVal(d)]
               ELSE [ok |-> FALSE, v |-> 0]

\* one transaction; roster_ids = <<>> stands for a missing, None or empty list,
\* which `tx.get("roster_ids") or []` all turn into []
Tx(roster_ids) == [roster_ids |-> roster_ids]

\* lines 197-203: counts after the roster ids of one transaction
RECURSIVE count_roster_ids(_, _)
count_roster_ids(cnt, roster_ids) ==
    IF roster_ids = <<>> THEN cnt
    ELSE LET r    == py_int(roster_ids[1])
             next == IF ~r.ok THEN cnt
                     ELSE IF r.v \in DOMAIN cnt THEN [cnt EXCEPT ![r.v] = @ + 1]
                     ELSE cnt @@ (r.v :> 1)
         IN  count_roster_ids(next, Tail(roster_ids))

\* lines 195-203: counts after the transactions of one week
RECURSIVE count_txs(_, _)
count_txs(cnt, txs) ==
    IF txs = <<>> THEN cnt
    ELSE count_txs(count_roster_ids(cnt, txs[1].roster_ids), Tail(txs))

next_streak_no_reset(txs, streak) == IF txs = <<>> THEN streak + 1 ELSE streak

\* lines 186-193: empty_streak after a week; txs = <<>> stands for a response
\* that `not txs` takes as empty (None or [])
next_streak(txs, streak) == IF txs = <<>> THEN streak + 1 ELSE 0

\* what the API may return for one week
WeekResponses ==
    { <<>>,
      <<Tx(<<Num(1)>>)>>,
      <<Tx(<<Num(1), Num(2)>>), Tx(<<Str(<<"2">>), Str(<<"x">>), NaN, Num(2)>>)>>,
      <<Tx(<<>>)>> }

\* lines 181-183: the call, before the first week
InitTransactions ==
    /\ DashboardIdle
    /\ WeeklyHighIdle
    /\ ChainIdle
    /\ PlayoffIdle
    /\ tx_pc = "loop"
    /\ api_txs \in [1..max_weeks -> WeekResponses]
    /\ week = 1
    /\ empty_streak = 0
    /\ counts = <<>>
    /\ queried = <<>>

\* lines 184-203: one pass of the loop, for week <= max_weeks
QueryWeek ==
    /\ tx_pc = "loop"
    /\ week <= max_weeks
    /\ queried' = Append(queried, week)
    /\ LET txs == api_txs[week]
       IN  /\ empty_streak' = next_streak(txs, empty_streak)
           /\ IF txs = <<>>
              THEN /\ UNCHANGED counts
                   /\ IF next_streak(txs, empty_streak) >= 3
                      THEN tx_pc' = "returned" /\ UNCHANGED week
                      ELSE tx_pc' = tx_pc /\ week' = week + 1
              ELSE /\ counts' = count_txs(counts, txs)
                   /\ tx_pc' = tx_pc
                   /\ week' = week + 1
    /\ UNCHANGED <<api_txs, dashboard_vars, wh_vars,
                   chain_vars, playoff_vars>>

\* lines 184, 208: the range is exhausted
ReturnCounts ==
    /\ tx_pc = "loop"
    /\ week > max_weeks
    /\ tx_pc' = "returned"
    /\ UNCHANGED <<api_txs, week, empty_streak, counts, queried, dashboard_vars, wh_vars,
                   chain_vars, playoff_vars>>

NextTransactions == QueryWeek \/ ReturnCounts

SpecTransactions == InitTransactions /\ [][NextTransactions]_vars

---------------------------------------------------------------------------
(* sleeper_weekly_high.py: find_week_high_scorer *)

\* the entries of a week that find_week_high_scorer may be given
MaxEntries == 3

\* None, as a JSON null or a missing key that dict.get returns as None
None == NaN

\* one team of a week: points, matchup_id and roster_id, each a number or None
Entry(points, matchup_id, roster_id) ==
    [points |-> points, matchup_id |-> matchup_id, roster_id |-> roster_id]

\* the week argument
week_arg == 1

\* roster_owner of build_mappings: roster 1 and roster 2 have an owner
roster_owner == (1 :> "u1") @@ (2 :> "u2")

\* user_map of build_mappings: only owner u1 is a known user
user_map == ("u1" :> [username |-> "ann", display_name |-> "Ann"])

BlankUser == [username |-> "", display_name |-> ""]

\* lines 53-60
user_info_for_roster(roster_id) ==
    LET owner_id == IF roster_id \in DOMAIN roster_owner THEN roster_owner[roster_id] ELSE ""
    IN  IF owner_id \in DOMAIN user_map THEN user_map[owner_id] ELSE BlankUser

\* line 79: the key of max(): (points is not None, float(points or 0.0))
key_of(m) == <<~isna(m.points), IF isna(m.points) THEN 0 ELSE m.points.v>>

\* tuple comparison of two keys: False sorts before True
KeyLess(a, b) ==
    \/ ~a[1] /\ b[1]
    \/ a[1] = b[1] /\ a[2] < b[2]

\* lines 77-80: max() returns the first entry with the greatest key
best_of(ms) ==
    CHOOSE i \in 1..Len(ms) :
        /\ \A k \in 1..Len(ms) : ~KeyLess(key_of(ms[i]), key_of(ms[k]))
        /\ \A k \in 1..(i - 1) : KeyLess(key_of(ms[k]), key_of(ms[i]))

\* lines 92-99: the scan for the opponent: "raised" when int(None) is reached,
\* else the position of the first entry of the same matchup with another
\* roster id, or 0 for None
RECURSIVE opponent_scan(_, _, _, _)
opponent_scan(ms, i, matchup_id, roster_id) ==
    IF i > Len(ms) THEN [raised |-> FALSE, at |-> 0]
    ELSE IF ms[i].matchup_id # matchup_id
         THEN opponent_scan(ms, i + 1, matchup_id, roster_id)
    ELSE IF ~py_int(ms[i].roster_id).ok THEN [raised |-> TRUE, at |-> 0]
    ELSE IF py_int(ms[i].roster_id).v # roster_id THEN [raised |-> FALSE, at |-> i]
    ELSE opponent_scan(ms, i + 1, matchup_id, roster_id)

\* the outcomes of the function
NoRow ==
    [ kind |-> "none", week |-> 0, matchup_id |-> None, roster_id |-> 0,
      username |-> "", display_name |-> "", points |-> None,
      opponent_roster_id |-> None, opponent_username |-> "" ]

Raised == [NoRow EXCEPT !.kind = "raised"]

\* lines 72-117; a blank opponent_roster_id ("") is None here
find_week_high_scorer(ms) ==
    IF ms = <<>> THEN NoRow
    ELSE LET best == ms[best_of(ms)]
         IN  IF isna(best.matchup_id) \/ isna(best.roster_id) THEN NoRow
             ELSE LET roster_id == py_int(best.roster_id).v
                      scan == opponent_scan(ms, 1, best.matchup_id, roster_id)
                      opponent_roster_id ==
                          IF scan.at # 0 THEN Num(py_int(ms[scan.at].roster_id).v)
                          ELSE None
                      opp_user ==
                          IF ~isna(opponent_roster_id) /\ opponent_roster_id.v # 0
                          THEN user_info_for_roster(opponent_roster_id.v)
                          ELSE BlankUser
                  IN  IF scan.raised THEN Raised
                      ELSE [ kind               |-> "row",
                             week               |-> week_arg,
                             matchup_id         |-> best.matchup_id,
                             roster_id          |-> roster_id,
                             username           |-> user_info_for_roster(roster_id).username,
                             display_name       |-> user_info_for_roster(roster_id).display_name,
                             points             |-> best.points,
                             opponent_roster_id |-> opponent_roster_id,
                             opponent_username  |-> opp_user.username ]

\* the teams a week's response may list
Entries ==
    { Entry(p, m, Num(r)) :
        p \in {None, Num(0), Num(7)}, m \in {None, Num(1), Num(2)}, r \in 1..2 }
      \cup
    { Entry(Num(7), Num(1), None), Entry(None, Num(1), None) }

\* line 72: the week's response has arrived
InitWeeklyHigh ==
    /\ DashboardIdle
    /\ TxIdle
    /\ ChainIdle
    /\ PlayoffIdle
    /\ wh_pc = "called"
    /\ matchups \in SeqsUpTo(Entries, MaxEntries)
    /\ wh_row = <<>>

\* lines 73-117: the function returns a row or None
ReturnRow ==
    /\ wh_pc = "called"
    /\ find_week_high_scorer(matchups).kind # "raised"
    /\ wh_row' = find_week_high_scorer(matchups)
    /\ wh_pc' = "returned"
    /\ UNCHANGED <<matchups, dashboard_vars, tx_vars,
                   chain_vars, playoff_vars>>

\* line 96: int(None) raises TypeError
RaiseTypeError ==
    /\ wh_pc = "called"
    /\ find_week_high_scorer(matchups).kind = "raised"
    /\ wh_pc' = "raised"
    /\ UNCHANGED <<matchups, wh_row, dashboard_vars, tx_vars,
                   chain_vars, playoff_vars>>

NextWeeklyHigh == ReturnRow \/ RaiseTypeError

SpecWeeklyHigh == InitWeeklyHigh /\ [][NextWeeklyHigh]_vars

---------------------------------------------------------------------------
(* sleeper_cpc_2022_2025.py and sleeper_standings_2022_2025.py: get_league_chain *)

\* the leagues the API knows
MaxLeagues == 3

\* the league ids "L1", "L2", ...
LeagueIds == {<<"L", n>> : n \in 1..MaxLeagues}

\* the start_league_id argument
start_league_id == <<"L", 1>>

\* the target_seasons argument
target_seasons == {"2025", "2024"}

\* a league object; previous_league_id = <<>> stands for None, "" or a missing key
League(season, id, previous_league_id) ==
    [season |-> season, league_id |-> id, previous_league_id |-> previous_league_id]

\* the league objects the API may hold: each league has a season and points to
\* any other league or to none
LeagueApis ==
    {api \in [LeagueIds -> [season : {"2025", "2024", "2023"},
                            previous_league_id : LeagueIds \cup {<<>>}]] :
        \A id \in LeagueIds : api[id].previous_league_id # id}

record_always(s2l, league) ==
    IF league.season \in target_seasons
    THEN [x \in DOMAIN s2l \cup {league.season} |->
             IF x = league.season THEN league.league_id ELSE s2l[x]]
    ELSE s2l

\* lines 51-52: the first league met for a target season is recorded
record(s2l, league) ==
    IF league.season \in target_seasons /\ league.season \notin DOMAIN s2l
    THEN [x \in DOMAIN s2l \cup {league.season} |->
             IF x = league.season THEN league.league_id ELSE s2l[x]]
    ELSE s2l

\* lines 45-46: the call, before the first pass of the loop
InitLeagueChain ==
    /\ DashboardIdle
    /\ TxIdle
    /\ WeeklyHighIdle
    /\ PlayoffIdle
    /\ lc_pc = "loop"
    /\ \E api \in LeagueApis :
          league_api = [id \in LeagueIds |->
                          League(api[id].season, id, api[id].previous_league_id)]
    /\ league_id = start_league_id
    /\ season_to_league = <<>>

\* lines 48-58: one pass of the loop, while league_id is not empty
FetchLeague ==
    /\ lc_pc = "loop"
    /\ league_id # <<>>
    /\ LET league == league_api[league_id]
       IN  /\ season_to_league' = record(season_to_league, league)
           /\ IF target_seasons \subseteq DOMAIN record(season_to_league, league)
              THEN lc_pc' = "returned" /\ UNCHANGED league_id
              ELSE lc_pc' = lc_pc /\ league_id' = league.previous_league_id
    /\ UNCHANGED <<league_api, dashboard_vars, tx_vars, wh_vars, playoff_vars>>

\* lines 48, 60: league_id is empty
ReturnChain ==
    /\ lc_pc = "loop"
    /\ league_id = <<>>
    /\ lc_pc' = "returned"
    /\ UNCHANGED <<league_api, league_id, season_to_league, dashboard_vars, tx_vars,
                   wh_vars, playoff_vars>>

NextLeagueChain == FetchLeague \/ ReturnChain

\* the loop runs on: every pass is followed by the next one or by the return
SpecLeagueChain ==
    InitLeagueChain /\ [][NextLeagueChain]_vars /\ WF_vars(NextLeagueChain)

---------------------------------------------------------------------------
(* sleeper_cpc_2022_2025.py: build_playoff_win_loss_maps and the champion  *)
(* column of pull_season_rows                                              *)

MaxRosters == 8

\* the roster_id of each roster of GET /league/<id>/rosters
rosters == [i \in 1..MaxRosters |-> Num(i)]

\* one bracket match: its round r, the winner w and loser l (None until it is
\* played) and the place p it decides (1 for the final, None for no place)
Match(r, w, l, p) == [r |-> r, w |-> w, l |-> l, p |-> p]

\* the first or the second of two teams, by the outcome k
side(a, b, k) == IF k = 1 THEN a ELSE b

\* the matches after the first `played` are not played yet
play(matches, played) ==
    [i \in 1..Len(matches) |->
        IF i <= played THEN matches[i]
        ELSE Match(matches[i].r, None, None, matches[i].p)]

\* the winners bracket of four playoff teams: two semifinals, the final and
\* the match for third place between the semifinals' losers
Bracket4(o) ==
    LET w1 == side(1, 4, o[1])  l1 == side(4, 1, o[1])
        w2 == side(2, 3, o[2])  l2 == side(3, 2, o[2])
    IN  << Match(1, Num(w1), Num(l1), None),
           Match(1, Num(w2), Num(l2), None),
           Match(2, Num(side(w1, w2, o[3])), Num(side(w2, w1, o[3])), Num(1)),
           Match(2, Num(side(l1, l2, o[4])), Num(side(l2, l1, o[4])), Num(3)) >>

\* the winners bracket of six playoff teams: seeds 1 and 2 have a bye, the
\* first round's losers play for fifth place, the semifinals' losers for third
Bracket6(o) ==
    LET w1 == side(3, 6, o[1])    l1 == side(6, 3, o[1])
        w2 == side(4, 5, o[2])    l2 == side(5, 4, o[2])
        w3 == side(1, w2, o[3])   l3 == side(w2, 1, o[3])
        w4 == side(2, w1, o[4])   l4 == side(w1, 2, o[4])
    IN  << Match(1, Num(w1), Num(l1), None),
           Match(1, Num(w2), Num(l2), None),
           Match(2, Num(w3), Num(l3), None),
           Match(2, Num(w4), Num(l4), None),
           Match(2, Num(side(l1, l2, o[5])), Num(side(l2, l1, o[5])), Num(5)),
           Match(3, Num(side(w3, w4, o[6])), Num(side(w4, w3, o[6])), Num(1)),
           Match(3, Num(side(l3, l4, o[7])), Num(side(l4, l3, o[7])), Num(3)) >>

\* the responses of the winners bracket endpoint: a bracket of four or of six
\* teams, played up to some match
WinnersBrackets ==
    {play(Bracket4(o), n) : o \in [1..4 -> {1, 2}], n \in 0..4}
      \cup {play(Bracket6(o), n) : o \in [1..7 -> {1, 2}], n \in 0..7}

\* the responses of the losers bracket endpoint: empty, or one match between
\* the last two rosters
LosersBrackets ==
    {<<>>} \cup
    {play(<<Match(1, Num(side(MaxRosters - 1, MaxRosters, k)),
                     Num(side(MaxRosters, MaxRosters - 1, k)), None)>>, n) :
        k \in {1, 2}, n \in 0..1}

\* lines 149-155: d[int(rid)] += 1, nothing when int() rejects rid
bump(d, rid) ==
    LET r == py_int(rid)
    IN  IF ~r.ok THEN d
        ELSE IF r.v \in DOMAIN d THEN [d EXCEPT ![r.v] = @ + 1]
        ELSE d @@ (r.v :> 1)

\* a bump only for a value that is not None
bump_if(d, rid) == IF rid # None THEN bump(d, rid) ELSE d

\* d.get(k, 0)
get0(d, k) == IF k \in DOMAIN d THEN d[k] ELSE 0

\* line 262: "Y" if (rid_int is not None and wb_wins_by_roster.get(rid_int, 0) == 2)
champion(wb, roster_id) ==
    LET rid_int == py_int(roster_id)
    IN  IF rid_int.ok /\ get0(wb, rid_int.v) = 2 THEN "Y" ELSE "N"

InitPlayoffs ==
    /\ DashboardIdle /\ TxIdle /\ WeeklyHighIdle /\ ChainIdle
    /\ po_pc = "winners"
    /\ winners_bracket \in WinnersBrackets
    /\ losers_bracket \in LosersBrackets
    /\ match_at = 1
    /\ wins = <<>>
    /\ losses = <<>>
    /\ wb_wins = <<>>
    /\ champion_by_roster = <<>>

\* lines 157-163: one match of the winners bracket
WinnersMatch ==
    /\ po_pc = "winners"
    /\ match_at <= Len(winners_bracket)
    /\ LET match == winners_bracket[match_at]
       IN  /\ wins' = bump_if(wins, match.w)
           /\ wb_wins' = bump_if(wb_wins, match.w)
           /\ losses' = bump_if(losses, match.l)
    /\ IF match_at < Len(winners_bracket)
       THEN match_at' = match_at + 1 /\ po_pc' = po_pc
       ELSE /\ match_at' = 1
            /\ po_pc' = IF losers_bracket = <<>> THEN "rosters" ELSE "losers"
    /\ UNCHANGED <<winners_bracket, losers_bracket, champion_by_roster,
                   dashboard_vars, tx_vars, wh_vars, chain_vars>>

\* lines 165-169: one match of the losers bracket
LosersMatch ==
    /\ po_pc = "losers"
    /\ match_at <= Len(losers_bracket)
    /\ LET match == losers_bracket[match_at]
       IN  /\ wins' = bump_if(wins, match.w)
           /\ losses' = bump_if(losses, match.l)
    /\ IF match_at < Len(losers_bracket)
       THEN match_at' = match_at + 1 /\ po_pc' = po_pc
       ELSE match_at' = 1 /\ po_pc' = "rosters"
    /\ UNCHANGED <<winners_bracket, losers_bracket, wb_wins, champion_by_roster,
                   dashboard_vars, tx_vars, wh_vars, chain_vars>>

\* lines 234-262: the champion column of every roster's row
MarkChampions ==
    /\ po_pc = "rosters"
    /\ champion_by_roster' =
         [i \in 1..Len(rosters) |-> champion(wb_wins, rosters[i])]
    /\ po_pc' = "returned"
    /\ UNCHANGED <<winners_bracket, losers_bracket, match_at, wins, losses, wb_wins,
                   dashboard_vars, tx_vars, wh_vars, chain_vars>>

NextPlayoffs == WinnersMatch \/ LosersMatch \/ MarkChampions

SpecPlayoffs == InitPlayoffs /\ [][NextPlayoffs]_vars

---------------------------------------------------------------------------
(* Properties *)

\* the working dataframe has been built
WorkBuilt == pc \in {"normalized", "aggregated", "ranked", "done"}

\* the aggregate has been built
Aggregated == pc \in {"aggregated", "ranked", "done"}

\* the logical fields the resolver left unresolved
Unresolved == {k \in DOMAIN required : required[k] = 0}

\* the raw cell of row i under the column resolved for field k
RawCell(i, k) == df[i][required[k]]

\* C1: in a run where a required logical field is unresolved the script stops at
\* the schema check: it never gets past st.stop(), and no working row, no
\* aggregate row and no leaderboard exist at any point of the run.
C1_HaltsBeforeOutput ==
    (pc # "loaded" /\ Unresolved # {}) =>
        /\ pc \in {"resolved", "stopped"}
        /\ work = <<>>
        /\ agg = <<>>
        /\ \A i \in 1..Len(shown) : shown[i].kind # "dataframe"

C1_Witness ==
    /\ pc = "stopped"
    /\ df # <<>>
    /\ Unresolved = {"Wins"}

\* C2 as stated: on a schema failure the report names exactly the unresolved
\* fields, lists the other required fields as resolved, and lists every header
\* of the source table.
C2_Original ==
    pc = "stopped" =>
        /\ \E i \in 1..Len(shown) :
              shown[i].kind = "error" /\ Range(shown[i].fields) = Unresolved
        /\ \E i \in 1..Len(shown) :
              /\ shown[i].kind # "error"
              /\ Range(shown[i].fields) = Range(RequiredKeys) \ Unresolved
        /\ \E i \in 1..Len(shown) :
              shown[i].kind = "write" /\ shown[i].headers = columns

\* C2 as amended: on a schema failure the report is an error naming exactly the
\* unresolved fields (each once, none that is resolved), then the full list of
\* headers of the source table, then a hint; nothing in it names a resolved field.
C2_ReportsMissingAndHeaders ==
    pc = "stopped" =>
        /\ Len(shown) = 3
        /\ shown[1].kind = "error"
        /\ Range(shown[1].fields) = Unresolved
        /\ Len(shown[1].fields) = Cardinality(Unresolved)
        /\ shown[2].kind = "write"
        /\ shown[2].headers = columns
        /\ \A i \in 1..Len(shown) :
              Range(shown[i].fields) \cap (Range(RequiredKeys) \ Unresolved) = {}

C2_Witness ==
    /\ pc = "stopped"
    /\ Unresolved = {"Wins", "PF"}
    /\ Len(columns) = 7

\* two texts are equal up to case, surrounding whitespace and byte order marks
SameHeader(a, b) == lower(strip(replace_bom(a))) = lower(strip(replace_bom(b)))

\* C3: pick_col returns a header equal, up to case, surrounding whitespace and
\* byte order marks, to the first alias in list order that equals some header
\* in that sense, and returns None exactly when no alias equals any header.
C3_PickColFirstAlias ==
    pc # "loaded" =>
        \A k \in DOMAIN required :
            LET cands == Candidates(k)
                hits  == {i \in 1..Len(cands) :
                            \E j \in 1..Len(columns) : SameHeader(cands[i], columns[j])}
            IN  /\ (required[k] = 0) <=> (hits = {})
                /\ hits # {} /\ required[k] # 0 =>
                      SameHeader(columns[required[k]],
                                 cands[CHOOSE i \in hits : \A h \in hits : i <= h])

\* C4: the working table has one row per raw row, in the same order: row i of
\* work carries the season label of raw row i.
C4_RowCountPreserved ==
    WorkBuilt =>
        /\ Len(work) = Len(df)
        /\ \A i \in 1..Len(df) : work[i].Season = RawCell(i, "Season")

C4_Witness ==
    /\ pc = "normalized"
    /\ Len(df) = 2
    /\ isna(RawCell(1, "Owner(s)"))
    /\ RawCell(2, "Wins") = Str(<<"x">>)

\* a champion cell that is text made of one "y" or "Y" between whitespace
IsYesFlag(c) ==
    /\ c.t = "str"
    /\ \E p \in 1..Len(c.s) :
          /\ c.s[p] \in {"y", "Y"}
          /\ \A q \in 1..Len(c.s) : q # p => c.s[q] \in Whitespace

\* C5: a working row is a champion row exactly when its raw champion cell,
\* trimmed and uppercased, is "Y"; a missing cell and every other value give false.
C5_IsChampIffY ==
    WorkBuilt =>
        \A i \in 1..Len(work) : work[i].IsChamp <=> IsYesFlag(RawCell(i, "Fantasy Champ"))

C5_Witness ==
    /\ WorkBuilt
    /\ Len(work) = 2
    /\ RawCell(1, "Fantasy Champ") = Str(<<" ", "y", "\t">>)
    /\ work[1].IsChamp
    /\ RawCell(2, "Fantasy Champ") = Str(<<"Y", "Y">>)
    /\ ~work[2].IsChamp

NumericColumns == {"Wins", "Losses", "PF", "PA", "Transactions"}

\* C6: after coercion no numeric field of a working row is negative, and a
\* missing or unparseable cell has become zero.
C6_NumericNonNegative ==
    WorkBuilt =>
        \A i \in 1..Len(work) : \A col \in NumericColumns :
            /\ work[i][col] >= 0
            /\ isna(to_numeric(RawCell(i, col))) => work[i][col] = 0

\* C7: every working row has a non-empty owner string.
C7_OwnerNonEmpty ==
    WorkBuilt => \A i \in 1..Len(work) : work[i].Owner # <<>>

\* C8: every aggregate row has games = total wins + total losses, a finite win
\* rate between 0 and 1, and win rate 0 when games = 0.
C8_GamesAndWinRate ==
    Aggregated =>
        \A i \in 1..Len(agg) :
            /\ agg[i].Games = agg[i].Total_Wins + agg[i].Total_Losses
            /\ agg[i].WinPct.k = "fin"
            /\ agg[i].WinPct.m >= 0
            /\ agg[i].WinPct.m <= 1000
            /\ agg[i].Games = 0 => agg[i].WinPct.m = 0

\* the position of an owner in the aggregate before the sort
InputPos(o) ==
    LET before == aggregate(work)
    IN  CHOOSE i \in 1..Len(before) : before[i].Owner = o

\* C9: the leaderboard holds the rows of the aggregate ordered by championships
\* descending, then win rate descending, then total wins descending, and rows
\* equal on all three keep the order they had before the sort; so a row with more
\* championships is above every row with fewer.
C9_LeaderboardOrder ==
    pc = "ranked" =>
        /\ Len(agg) = Len(aggregate(work))
        /\ Range(agg) = Range(aggregate(work))
        /\ \A i \in 1..Len(agg) : \A j \in 1..Len(agg) :
              i < j =>
                \/ agg[i].Championships > agg[j].Championships
                \/ /\ agg[i].Championships = agg[j].Championships
                   /\ FloatGt(agg[i].WinPct, agg[j].WinPct)
                \/ /\ agg[i].Championships = agg[j].Championships
                   /\ agg[i].WinPct = agg[j].WinPct
                   /\ agg[i].Total_Wins > agg[j].Total_Wins
                \/ /\ agg[i].Championships = agg[j].Championships
                   /\ agg[i].WinPct = agg[j].WinPct
                   /\ agg[i].Total_Wins = agg[j].Total_Wins
                   /\ InputPos(agg[i].Owner) < InputPos(agg[j].Owner)

\* two championships at win rate 0.5 rank above one championship at a higher rate
C9_Witness ==
    /\ pc = "ranked"
    /\ Len(agg) = 2
    /\ agg[1].Championships = 2
    /\ agg[1].WinPct = Fin(500)
    /\ agg[2].Championships = 1
    /\ FloatGt(agg[2].WinPct, Fin(500))

\* the champion rows of an owner that have a derived year
DatedChampRows(o) ==
    {i \in 1..Len(work) :
        work[i].Owner = o /\ work[i].IsChamp /\ ~isna(work[i].Season_Year)}

\* C10: championship points are 25 for each champion row of the owner with a
\* derived year before 2014 plus 50 for each with a derived year of 2014 or
\* later; champion rows without a derived year and other rows add nothing.
C10_ChampionshipPoints ==
    Aggregated =>
        \A i \in 1..Len(agg) :
            agg[i].ChampionshipPoints =
                25 * Cardinality({r \in DatedChampRows(agg[i].Owner) :
                                    work[r].Season_Year.v < 2014})
              + 50 * Cardinality({r \in DatedChampRows(agg[i].Owner) :
                                    work[r].Season_Year.v >= 2014})

\* titles in 2012 and 2015, and a champion row without a year, give 75
C10_Witness ==
    /\ Aggregated
    /\ \E i \in 1..Len(agg) :
          /\ agg[i].ChampionshipPoints = 75
          /\ agg[i].Championships = 3
          /\ \E r \in 1..Len(work) :
                work[r].Owner = agg[i].Owner /\ work[r].IsChamp /\ work[r].Season_Year = Num(2012)
          /\ \E r \in 1..Len(work) :
                work[r].Owner = agg[i].Owner /\ work[r].IsChamp /\ work[r].Season_Year = Num(2015)

\* the rows of an owner with a derived year in the modern era
ModernRows(o) ==
    {r \in 1..Len(work) :
        /\ work[r].Owner = o
        /\ ~isna(work[r].Season_Year)
        /\ work[r].Season_Year.v >= 2014}

\* C11: the aggregate has exactly one row per distinct trimmed owner string of
\* the working table, no owner twice; an owner without a row of 2014 or later
\* is still there once, with every summed stat, games and win rate equal to 0.
C11_OneSummaryPerOwner ==
    Aggregated =>
        /\ {agg[i].Owner : i \in 1..Len(agg)} = {work[r].Owner : r \in 1..Len(work)}
        /\ \A i \in 1..Len(agg) : \A j \in 1..Len(agg) :
              agg[i].Owner = agg[j].Owner => i = j
        /\ \A i \in 1..Len(agg) :
              ModernRows(agg[i].Owner) = {} =>
                /\ agg[i].Total_Wins = 0
                /\ agg[i].Total_Losses = 0
                /\ agg[i].Total_PF = 0
                /\ agg[i].Total_PA = 0
                /\ agg[i].Total_Transactions = 0
                /\ agg[i].Games = 0
                /\ agg[i].WinPct = Fin(0)

\* an owner with a 2012 row only next to an owner of the modern era
C11_Witness ==
    /\ Aggregated
    /\ Len(agg) = 2
    /\ \E i \in 1..Len(agg) :
          /\ ModernRows(agg[i].Owner) = {}
          /\ \E r \in 1..Len(work) :
                work[r].Owner = agg[i].Owner /\ work[r].Season_Year = Num(2012)
    /\ \E i \in 1..Len(agg) : ModernRows(agg[i].Owner) # {}

\* C13: points per transaction is total points-for divided by
\* max(total transactions, 1), to the nearest hundredth: the divisor is at least
\* 1 and the value is finite, also when total transactions is 0.
C13_PointsPerTransaction ==
    Aggregated =>
        \A i \in 1..Len(agg) :
            LET d == IF agg[i].Total_Transactions >= 1 THEN agg[i].Total_Transactions ELSE 1
                h == agg[i].PFperTransaction
                e == 100 * agg[i].Total_PF - h.m * d
            IN  /\ h.k = "fin"
                /\ d >= 1
                /\ 2 * e <= d
                /\ 2 * e >= 0 - d

\* an owner with points and no transactions
C13_Witness ==
    /\ Aggregated
    /\ \E i \in 1..Len(agg) :
          /\ agg[i].Total_Transactions = 0
          /\ agg[i].Total_PF > 0
          /\ agg[i].PFperTransaction = Fin(100 * agg[i].Total_PF)

\* the rows of a set summed over one column
RECURSIVE SumRows(_, _)
SumRows(S, col) ==
    IF S = {} THEN 0
    ELSE LET r == CHOOSE x \in S : TRUE
         IN  work[r][col] + SumRows(S \ {r}, col)

\* the champion rows of an owner that carry a season label
LabelledChampRows(o) ==
    {r \in 1..Len(work) : work[r].Owner = o /\ work[r].IsChamp /\ ~isna(work[r].Season)}

RECURSIVE SumLabelLen(_)
SumLabelLen(S) ==
    IF S = {} THEN 0
    ELSE LET r == CHOOSE x \in S : TRUE
         IN  Len(astype_str(work[r].Season)) + SumLabelLen(S \ {r})

\* sub occurs in text
Occurs(sub, text) ==
    \E p \in 0..(Len(text) - Len(sub)) : SubSeq(text, p + 1, p + Len(sub)) = sub

\* C16: total wins, losses, points-for, points-against and transactions of an
\* owner are the sums over the owner's rows with a derived year of 2014 or
\* later (rows without a year left out), while the championship count and the
\* championship years are taken over all the owner's rows.
C16_EraSplit ==
    Aggregated =>
        \A i \in 1..Len(agg) :
            LET o == agg[i].Owner
                titles == LabelledChampRows(o)
            IN  /\ agg[i].Total_Wins = SumRows(ModernRows(o), "Wins")
                /\ agg[i].Total_Losses = SumRows(ModernRows(o), "Losses")
                /\ agg[i].Total_PF = SumRows(ModernRows(o), "PF")
                /\ agg[i].Total_PA = SumRows(ModernRows(o), "PA")
                /\ agg[i].Total_Transactions = SumRows(ModernRows(o), "Transactions")
                /\ agg[i].Championships =
                      Cardinality({r \in 1..Len(work) : work[r].Owner = o /\ work[r].IsChamp})
                /\ \A r \in titles : Occurs(astype_str(work[r].Season), agg[i].ChampionshipYears)
                /\ Len(agg[i].ChampionshipYears) =
                      IF titles = {} THEN 0
                      ELSE SumLabelLen(titles) + 2 * (Cardinality(titles) - 1)

\* titles in 2012 and 2015: both years are listed, only the 2015 record is summed
C16_Witness ==
    /\ Aggregated
    /\ \E i \in 1..Len(agg) :
          /\ agg[i].Championships = 2
          /\ agg[i].ChampionshipYears = <<"2","0","1","2",","," ","2","0","1","5">>
          /\ agg[i].Total_Wins = 2
          /\ agg[i].Total_Losses = 1
          /\ agg[i].Total_PF = 3

\* the year of the first run of exactly four digits of a label, if any
ExactRunYear(s) ==
    LET starts == {p \in 1..(Len(s) - 3) :
                     /\ \A q \in p..(p + 3) : IsDigit(s[q])
                     /\ p = 1 \/ ~IsDigit(s[p - 1])
                     /\ p + 4 > Len(s) \/ ~IsDigit(s[p + 4])}
    IN  IF starts = {} THEN NaN
        ELSE LET p == CHOOSE x \in starts : \A y \in starts : x <= y
             IN  Num(DigitsVal(SubSeq(s, p, p + 3)))

\* C17: the derived year of a row is the number formed by the first run of
\* exactly four digits of its season label; a label whose digit runs are all
\* shorter or longer than four digits has no year.
C17_YearFromExactRun ==
    WorkBuilt =>
        \A i \in 1..Len(work) :
            work[i].Season_Year = ExactRunYear(astype_str(RawCell(i, "Season")))

\* the aggregate rows of the owners without a championship
NoRing == {i \in 1..Len(agg) : agg[i].Championships = 0}

\* C12: "most wins, no ring" names an owner with zero championships whose total
\* wins are the most among the owners with zero championships; when every owner
\* has a championship it is the fallback label, and nothing raises.
C12_MostWinsNoRing ==
    pc = "done" =>
        IF NoRing = {} THEN awards.heartbreak = Fallback
        ELSE /\ awards.heartbreak.kind = "named"
             /\ \E i \in NoRing :
                   /\ awards.heartbreak.owner = agg[i].Owner
                   /\ awards.heartbreak.value = agg[i].Total_Wins
                   /\ \A k \in NoRing : agg[i].Total_Wins >= agg[k].Total_Wins

\* the owner named has fewer wins than an owner with a ring
C12_Witness ==
    /\ pc = "done"
    /\ awards.heartbreak.kind = "named"
    /\ \E i \in 1..Len(agg) :
          /\ agg[i].Championships > 0
          /\ agg[i].Total_Wins > awards.heartbreak.value

\* C14: once the schema check has passed the run never raises, and at its end
\* each of the six superlatives is a named record or the fallback label, also
\* for a table without data rows.
C14_SuperlativesNeverRaise ==
    /\ pc # "raised"
    /\ pc = "done" =>
          \A n \in AwardNames : awards[n].kind \in {"named", "fallback"}

\* awards.luckiest is a row of the set S with the lowest points-for, or the
\* fallback label when S is empty
LowestPFOf(S) ==
    IF S = {} THEN awards.luckiest = Fallback
    ELSE /\ awards.luckiest.kind = "named"
         /\ \E r \in S :
               /\ awards.luckiest.owner = work[r].Owner
               /\ awards.luckiest.season = work[r].Season
               /\ awards.luckiest.value = work[r].PF
               /\ \A k \in S : work[r].PF <= work[k].PF

\* C18 as stated: "luckiest champion" is a row with the lowest points-for among
\* all champion rows, and the fallback label only when there is no champion row.
C18_Original ==
    pc = "done" => LowestPFOf({r \in 1..Len(work) : work[r].IsChamp})

\* C18: "luckiest champion" is a row with the lowest points-for among the
\* champion rows with a derived year of 2014 or later and a positive
\* points-for, and the fallback label exactly when there is no such row.
C18_LuckiestChampion ==
    pc = "done" =>
        LowestPFOf({r \in 1..Len(work) :
                      /\ work[r].IsChamp
                      /\ work[r].PF > 0
                      /\ ~isna(work[r].Season_Year)
                      /\ work[r].Season_Year.v >= 2014})

\* two modern champion rows that differ in points-for, next to a 2012 title
C18_Witness ==
    /\ pc = "done"
    /\ awards.luckiest.kind = "named"
    /\ \E r \in 1..Len(work) :
          /\ work[r].IsChamp
          /\ work[r].Season_Year = Num(2015)
          /\ work[r].PF > awards.luckiest.value
    /\ \E r \in 1..Len(work) :
          work[r].IsChamp /\ work[r].Season_Year = Num(2012)

\* the aggregate rows of the owners with at least QUAL_SEASONS tracked seasons
Qualifying == {i \in 1..Len(agg) : agg[i].Seasons_Played >= QUAL_SEASONS}

\* the variance of the season win rate of an owner over the modern era
SpreadOf(o) ==
    variance(SelectSeq(work, LAMBDA w : w.Owner = o /\ is_modern(w)))

\* awards.mr_consistency names a qualifying owner with the lowest spread
NamesSteadiest ==
    /\ awards.mr_consistency.kind = "named"
    /\ \E i \in Qualifying :
          /\ awards.mr_consistency.owner = agg[i].Owner
          /\ \A k \in Qualifying :
                ~FracLess(SpreadOf(agg[k].Owner), SpreadOf(agg[i].Owner))

\* C15 as stated: "most consistent" is the fallback label whenever fewer than
\* two owners qualify, and names a qualifying owner with the lowest spread of
\* the season win rate only when at least two qualify.
C15_Original ==
    pc = "done" =>
        IF Cardinality(Qualifying) < 2 THEN awards.mr_consistency = Fallback
        ELSE NamesSteadiest

\* C15: "most consistent" is the fallback label exactly when no owner
\* qualifies; with one qualifying owner or more it names a qualifying owner
\* with the lowest spread of the season win rate.
C15_MostConsistent ==
    pc = "done" =>
        IF Qualifying = {} THEN awards.mr_consistency = Fallback
        ELSE NamesSteadiest

\* two owners qualify and the one named has the smaller spread
C15_Witness ==
    /\ pc = "done"
    /\ Cardinality(Qualifying) = 2
    /\ awards.mr_consistency.kind = "named"
    /\ \E k \in Qualifying :
          FracLess(SpreadOf(awards.mr_consistency.owner), SpreadOf(agg[k].Owner))

\* entry p of transaction t of week w names roster r, as a number or as digits
NamesRoster(w, t, p, r) ==
    LET c == api_txs[w][t].roster_ids[p]
    IN  \/ c.t = "num" /\ c.v = r
        \/ c.t = "str" /\ c.s = NatStr(r)

\* the entries of the transactions of weeks 1..n that name roster r
EntriesOf(r, n) ==
    {e \in (1..n) \X (1..2) \X (1..4) :
        /\ e[2] <= Len(api_txs[e[1]])
        /\ e[3] <= Len(api_txs[e[1]][e[2]].roster_ids)
        /\ NamesRoster(e[1], e[2], e[3], r)}

\* the weeks at which three weeks in a row have come back empty
ThirdEmptyWeeks ==
    {w \in 3..max_weeks : \A k \in (w - 2)..w : api_txs[k] = <<>>}

\* C19: the weeks are requested as 1, 2, 3, ... up to max_weeks; the last week
\* requested is the first one that ends three empty weeks in a row (a week with
\* transactions restarts the run), or max_weeks when there is none; the result
\* maps each roster to the number of entries naming it in the roster_ids lists
\* of the transactions of the requested weeks, and holds no other roster.
C19_TransactionsCount ==
    /\ \A i \in 1..Len(queried) : queried[i] = i
    /\ tx_pc = "returned" =>
          /\ Len(queried) =
                IF ThirdEmptyWeeks = {} THEN max_weeks
                ELSE CHOOSE w \in ThirdEmptyWeeks : \A k \in ThirdEmptyWeeks : w <= k
          /\ \A r \in 1..2 :
                IF EntriesOf(r, Len(queried)) = {} THEN r \notin DOMAIN counts
                ELSE /\ r \in DOMAIN counts
                     /\ counts[r] = Cardinality(EntriesOf(r, Len(queried)))
          /\ DOMAIN counts \subseteq 1..2

\* the loop stopped before max_weeks, after an empty week, a week with
\* transactions and three empty weeks, with transactions counted
C19_Witness ==
    /\ tx_pc = "returned"
    /\ Len(queried) < max_weeks
    /\ \E w \in 1..Len(queried) :
          /\ w + 1 < Len(queried)
          /\ api_txs[w] = <<>>
          /\ api_txs[w + 1] # <<>>
    /\ \E r \in DOMAIN counts : counts[r] >= 2

\* entry a has points and entry b has none or fewer
Outscores(a, b) ==
    /\ ~isna(a.points)
    /\ isna(b.points) \/ a.points.v > b.points.v

\* the entries of the matchup of entry i with another roster id
OpponentsOf(i) ==
    {j \in 1..Len(matchups) :
        /\ matchups[j].matchup_id = matchups[i].matchup_id
        /\ matchups[j].roster_id # matchups[i].roster_id}

\* C20: the function never raises; it returns None when the week has no
\* matchup data, and otherwise a row for an entry that no entry outscores (an
\* entry without points is outscored by every entry with points), whose
\* opponent is an entry of the same matchup with another roster id, or blank
\* when there is none.
C20_WeekHighScorer ==
    /\ wh_pc # "raised"
    /\ wh_pc = "returned" =>
          IF matchups = <<>> THEN wh_row.kind = "none"
          ELSE /\ wh_row.kind = "row"
               /\ \E i \in 1..Len(matchups) :
                     /\ wh_row.roster_id = matchups[i].roster_id.v
                     /\ wh_row.matchup_id = matchups[i].matchup_id
                     /\ wh_row.points = matchups[i].points
                     /\ \A k \in 1..Len(matchups) : ~Outscores(matchups[k], matchups[i])
                     /\ IF OpponentsOf(i) = {} THEN isna(wh_row.opponent_roster_id)
                        ELSE \E j \in OpponentsOf(i) :
                                wh_row.opponent_roster_id = matchups[j].roster_id

\* the walk from a league along previous_league_id, at most n leagues long
RECURSIVE WalkFrom(_, _)
WalkFrom(id, n) ==
    IF n = 0 \/ id = <<>> THEN <<>>
    ELSE <<id>> \o WalkFrom(league_api[id].previous_league_id, n - 1)

\* the walk over the leagues reachable from the start: after MaxLeagues
\* leagues a walk only repeats itself
Walk == WalkFrom(start_league_id, MaxLeagues)

\* the walk has stopped where it should: every target season is recorded, or
\* a league without a previous league was reached
StoppedInTime ==
    \/ target_seasons \subseteq DOMAIN season_to_league
    \/ league_id = <<>>

\* the mapping holds target seasons only, each with the first league of that
\* season on the walk
FirstOfSeason ==
    /\ DOMAIN season_to_league \subseteq target_seasons
    /\ \A x \in DOMAIN season_to_league :
          \E i \in 1..Len(Walk) :
              /\ season_to_league[x] = Walk[i]
              /\ league_api[Walk[i]].season = x
              /\ \A k \in 1..(i - 1) : league_api[Walk[k]].season # x

\* the walk from the start meets a league without a previous league
ChainEnds ==
    \E i \in 1..Len(Walk) : league_api[Walk[i]].previous_league_id = <<>>

\* every target season is the season of a league on the walk
TargetsOnWalk ==
    \A x \in target_seasons : \E i \in 1..Len(Walk) : league_api[Walk[i]].season = x

Champions == {i \in 1..Len(rosters) : champion_by_roster[i] = "Y"}

\* the matches of the winners bracket won by the roster with the id rid
WonInWinnersBracket(rid) ==
    {i \in 1..Len(winners_bracket) : winners_bracket[i].w = rid}

\* the final: the match of the winners bracket that decides place 1
Finals == {i \in 1..Len(winners_bracket) : winners_bracket[i].p = Num(1)}

\* C22: once the rows of a season are built, at most one roster has champion
\* "Y", that roster is the winner of the final of the winners bracket, and a
\* roster has "Y" exactly when it won two matches of the winners bracket.
C22_ChampionIsFinalWinner ==
    po_pc = "returned" =>
        /\ Cardinality(Champions) <= 1
        /\ \A i \in Champions :
              \E f \in Finals : winners_bracket[f].w = rosters[i]
        /\ \A i \in 1..Len(rosters) :
              i \in Champions <=> Cardinality(WonInWinnersBracket(rosters[i])) = 2

=============================================================================
